---- MODULE Spec2Model ----
(***************************************************************************)
(* Model of the EBAFIN budget importer (src/app.py): read_table, the       *)
(* envelope builder, parse_response and the batch loop of run_import,      *)
(* driven by the "Validar planilha" and "Executar importação" handlers.    *)
(*                                                                         *)
(* Python text that the code inspects character by character (cells, XML  *)
(* tags and element text) is a sequence of one-character strings.  Python  *)
(* None is the one-element sequence <<"None">>, which no text equals.      *)
(* Names the code only compares as a whole (column names, status words,    *)
(* configuration values) are TLA+ strings.                                 *)
(***************************************************************************)
EXTENDS Integers, Sequences, FiniteSets, TLC

----------------------------------------------------------------------------
(* Bounds of the model *)

\* longest record sequence of a run
MaxRows == 3
\* largest batch size tried besides BATCH_SIZE
MaxBatch == 2
\* longest numeric cell text drawn for read_table
MaxLen == 5
\* most elements of a response document drawn for parse_response
MaxElems == 2

----------------------------------------------------------------------------
(* Program constants *)

ENCRYPTION == "0"
TIP_OPE == "0"
LCT_SUP == "1"
RECALCULA_TOTALIZADORES == "S"
TIMEOUT == 60
BATCH_SIZE == 50
ENDPOINT_SOAP == "https://web130.seniorcloud.com.br:30401/g5-senior-services/sapiens_Synccom_senior_g5_co_mfi_prj_gerarorcamentofinanceirogrid"

REQUIRED_COLUMNS ==
  <<"numPrj", "mesAno", "codFpj", "ctaFin", "codCcu", "vlrCpf", "vlrCxf">>

None == <<"None">>

----------------------------------------------------------------------------
(* Python values and text *)

Min(a, b) == IF a <= b THEN a ELSE b

Range(s) == {s[j] : j \in 1..Len(s)}

Digits == {"0", "1", "2", "3", "4", "5", "6", "7", "8", "9"}

DigitVal(c) ==
  CASE c = "0" -> 0 [] c = "1" -> 1 [] c = "2" -> 2 [] c = "3" -> 3
    [] c = "4" -> 4 [] c = "5" -> 5 [] c = "6" -> 6 [] c = "7" -> 7
    [] c = "8" -> 8 [] c = "9" -> 9

DigitChr(d) == <<"0", "1", "2", "3", "4", "5", "6", "7", "8", "9">>[d + 1]

RECURSIVE Pow10(_)
Pow10(k) == IF k = 0 THEN 1 ELSE 10 * Pow10(k - 1)

\* a cell value: str, int, float (m / 10^e, no trailing zero in m when e > 0)
\* or the float NaN
PStr(s) == [t |-> "str", s |-> s, m |-> 0, e |-> 0]
PInt(n) == [t |-> "int", s |-> <<>>, m |-> n, e |-> 0]
PNaN == [t |-> "nan", s |-> <<>>, m |-> 0, e |-> 0]

RECURSIVE PFloat(_, _)
PFloat(m, e) ==
  IF e > 0 /\ m % 10 = 0 THEN PFloat(m \div 10, e - 1)
  ELSE [t |-> "float", s |-> <<>>, m |-> m, e |-> e]

\* str(n) of a non-negative int
RECURSIVE IntStr(_)
IntStr(n) == IF n < 10 THEN <<DigitChr(n)>> ELSE IntStr(n \div 10) \o <<DigitChr(n % 10)>>

\* the k low decimal digits of n, zero-padded
RECURSIVE PadStr(_, _)
PadStr(n, k) == IF k = 0 THEN <<>> ELSE PadStr(n \div 10, k - 1) \o <<DigitChr(n % 10)>>

\* repr of a non-negative float m / 10^e in positional notation
FloatStr(m, e) ==
  IF e = 0 THEN IntStr(m) \o <<".", "0">>
  ELSE IntStr(m \div Pow10(e)) \o <<".">> \o PadStr(m % Pow10(e), e)

\* str(x)
PyStr(v) ==
  CASE v.t = "str" -> v.s
    [] v.t = "int" -> IntStr(v.m)
    [] v.t = "float" -> FloatStr(v.m, v.e)
    [] v.t = "nan" -> <<"n", "a", "n">>

\* s.replace(a, b) for a one-character a
RECURSIVE Replace(_, _, _)
Replace(s, a, b) ==
  IF s = <<>> THEN <<>>
  ELSE (IF Head(s) = a THEN b ELSE <<Head(s)>>) \o Replace(Tail(s), a, b)

RECURSIVE DigitsToInt(_)
DigitsToInt(s) ==
  IF s = <<>> THEN 0 ELSE 10 * DigitsToInt(SubSeq(s, 1, Len(s) - 1)) + DigitVal(s[Len(s)])

\* float(s) for unsigned text over digits and ".", and for "nan";
\* ok = FALSE is the ValueError
ParseFloat(s) ==
  LET dots == {j \in 1..Len(s) : s[j] = "."}
      dig == Replace(s, ".", <<>>)
  IN IF s = <<"n", "a", "n">> THEN [ok |-> TRUE, v |-> PNaN]
     ELSE IF Range(s) \subseteq Digits \cup {"."} /\ Cardinality(dots) <= 1 /\ dig # <<>>
       THEN [ok |-> TRUE,
             v |-> PFloat(DigitsToInt(dig),
                          IF dots = {} THEN 0 ELSE Len(s) - (CHOOSE j \in dots : TRUE))]
       ELSE [ok |-> FALSE, v |-> PNaN]

----------------------------------------------------------------------------
(* read_table *)

\* str(x).replace(".", "").replace(",", ".") then float
NumberFromText(s) == ParseFloat(Replace(Replace(s, ".", <<>>), ",", <<".">>))

\* normalize_number_series on one column: every cell through astype(str),
\* the two replaces and astype(float); ok = FALSE when a cell does not convert
normalize_number_series(series) ==
  LET conv == [j \in 1..Len(series) |-> NumberFromText(PyStr(series[j]))]
  IN [ok |-> \A j \in 1..Len(series) : conv[j].ok,
      v |-> [j \in 1..Len(series) |-> conv[j].v]]

\* dict(zip(header, parts)): a later duplicate key wins
DictZip(header, parts) ==
  LET n == Min(Len(header), Len(parts))
  IN [k \in {header[j] : j \in 1..n} |->
        parts[CHOOSE j \in 1..n : header[j] = k /\ \A i \in (j + 1)..n : header[i] # k]]

\* variant: reports the first missing column only
MissingFirstOnly(header) ==
  LET miss == SelectSeq(REQUIRED_COLUMNS, LAMBDA c : c \notin Range(header))
  IN IF miss = <<>> THEN <<>> ELSE <<miss[1]>>

\* [c for c in REQUIRED_COLUMNS if c not in header]
MissingColumns(header) ==
  SelectSeq(REQUIRED_COLUMNS, LAMBDA c : c \notin Range(header))

IsExcel(ext) == ext \in {"xlsx", "xls"}
IsCsv(ext) == ext \in {"csv", "txt"}

Fail(kind, miss) == [ok |-> FALSE, kind |-> kind, miss |-> miss, rows |-> <<>>]
Loaded(rows) == [ok |-> TRUE, kind |-> "", miss |-> <<>>, rows |-> rows]

\* the value the openpyxl reader hands over for a cell: a numeric cell with
\* an integral value as an int, any other cell as it is ("" when empty)
InferExcel(cell) ==
  IF cell.t = "float" /\ cell.e = 0 THEN PInt(cell.m) ELSE cell

\* the text parser's missing values among the cells
IsNA(cell) == cell.t = "nan" \/ cell = PStr(<<>>) \/ cell = PStr(<<"n", "a", "n">>)

\* a number, or text that reads as one
IsNumeric(cell) == cell.t \in {"int", "float"} \/ (cell.t = "str" /\ ParseFloat(cell.s).ok)

IsIntLike(cell) ==
  cell.t = "int" \/ (cell.t = "str" /\ ParseFloat(cell.s).ok /\ "." \notin Range(cell.s))

ToNumber(cell) ==
  IF cell.t # "str" THEN cell
  ELSE IF "." \in Range(cell.s) THEN ParseFloat(cell.s).v
  ELSE PInt(DigitsToInt(cell.s))

AsFloat(cell) == IF cell.t = "int" THEN PFloat(cell.m, 0) ELSE cell

\* the dtype the text parser of read_csv / read_excel gives a column:
\* missing values become NaN; a column of whole numbers is int64, a column
\* of numbers and NaN is float64, any other column keeps its cells
InferColumn(cells) ==
  LET vals == [j \in 1..Len(cells) |-> IF IsNA(cells[j]) THEN PNaN ELSE cells[j]]
  IN IF \A j \in 1..Len(vals) : vals[j].t = "nan" \/ IsNumeric(vals[j])
       THEN (IF \A j \in 1..Len(vals) : IsIntLike(vals[j])
               THEN [j \in 1..Len(vals) |-> ToNumber(vals[j])]
               ELSE [j \in 1..Len(vals) |->
                       IF vals[j].t = "nan" THEN PNaN ELSE AsFloat(ToNumber(vals[j]))])
       ELSE vals

\* the rows of the frame read_excel / read_csv return for a file
InferFrame(f) ==
  LET cellAt(j, k) == IF IsExcel(f.ext) THEN InferExcel(f.rows[j][k]) ELSE f.rows[j][k]
      column(k) == InferColumn([j \in 1..Len(f.rows) |-> cellAt(j, k)])
  IN [j \in 1..Len(f.rows) |-> [k \in 1..Len(f.header) |-> column(k)[j]]]

\* pandas branch: the frame read_excel / read_csv return, the column check,
\* then the two value columns normalised column by column (a column that
\* does not convert is left as it was)
ReadTablePandas(f, hasOpenpyxl) ==
  LET rows == [j \in 1..Len(f.rows) |-> DictZip(f.header, InferFrame(f)[j])]
      miss == MissingColumns(f.header)
      col(c) == [j \in 1..Len(rows) |-> rows[j][c]]
      norm(c) == normalize_number_series(col(c))
      newval(j, c) ==
        IF c \in {"vlrCpf", "vlrCxf"} /\ norm(c).ok THEN norm(c).v[j] ELSE rows[j][c]
  IN IF IsExcel(f.ext) /\ ~hasOpenpyxl THEN Fail("NoOpenpyxl", <<>>)
     ELSE IF ~IsExcel(f.ext) /\ ~IsCsv(f.ext) THEN Fail("Unsupported", <<>>)
     ELSE IF IsCsv(f.ext) /\ f.header = <<>> THEN Fail("EmptyData", <<>>)
     ELSE IF miss # <<>> THEN Fail("Schema", miss)
     ELSE Loaded([j \in 1..Len(rows) |-> [c \in DOMAIN rows[j] |-> newval(j, c)]])

\* fallback branch without pandas: plain delimited text
ReadTableFallback(f) ==
  LET rows == [j \in 1..Len(f.rows) |-> DictZip(f.header, f.rows[j])]
      miss == MissingColumns(f.header)
      touched(j, c) ==
        c \in {"vlrCpf", "vlrCxf"} /\ c \in DOMAIN rows[j] /\ rows[j][c] # PStr(<<>>)
      conv(j, c) == NumberFromText(PyStr(rows[j][c]))
  IN IF ~IsCsv(f.ext) THEN Fail("UnsupportedNoPandas", <<>>)
     ELSE IF f.header = <<>> THEN Fail("IndexError", <<>>)
     ELSE IF miss # <<>> THEN Fail("Schema", miss)
     ELSE IF \E j \in 1..Len(rows) : \E c \in DOMAIN rows[j] : touched(j, c) /\ ~conv(j, c).ok
       THEN Fail("ValueError", <<>>)
     ELSE Loaded([j \in 1..Len(rows) |->
                   [c \in DOMAIN rows[j] |-> IF touched(j, c) THEN conv(j, c).v ELSE rows[j][c]]])

read_table(f, hasPandas, hasOpenpyxl) ==
  IF hasPandas THEN ReadTablePandas(f, hasOpenpyxl) ELSE ReadTableFallback(f)

----------------------------------------------------------------------------
(* XML builders *)

\* _val_from_row: "" for a missing or NaN value under pandas, str(x) otherwise
val_from_row(x, k, hasPandas) ==
  IF hasPandas
    THEN (IF k \notin DOMAIN x \/ x[k].t = "nan" THEN <<>> ELSE PyStr(x[k]))
    ELSE (IF k \notin DOMAIN x THEN <<>> ELSE PyStr(x[k]))

\* build_item: one orcamentoFinanceiroLista element, a child per required column
build_item(row, hasPandas) ==
  [tag |-> "orcamentoFinanceiroLista",
   children |-> [j \in 1..Len(REQUIRED_COLUMNS) |->
                   [tag |-> REQUIRED_COLUMNS[j],
                    text |-> val_from_row(row, REQUIRED_COLUMNS[j], hasPandas)]]]

\* build_envelope: Envelope / Body / gerarorcamentofinanceirogrid, the seven
\* header fields in order, then the list of items
build_envelope(cfg, rows, hasPandas) ==
  [tag |-> "{http://schemas.xmlsoap.org/soap/envelope/}Envelope",
   body |-> "{http://schemas.xmlsoap.org/soap/envelope/}Body",
   req |-> "{http://services.senior.com.br}gerarorcamentofinanceirogrid",
   header |-> << <<"user", cfg.user>>, <<"password", cfg.password>>,
                 <<"encryption", cfg.encryption>>, <<"tipOpe", cfg.tipOpe>>,
                 <<"codEmp", cfg.codEmp>>, <<"lctSup", cfg.lctSup>>,
                 <<"recalculaTotalizadores", cfg.recalculaTotalizadores>> >>,
   lista |-> [j \in 1..Len(rows) |-> build_item(rows[j], hasPandas)]]

----------------------------------------------------------------------------
(* parse_response *)

\* tag names looked up in the response
t_resultado == <<"r", "e", "s", "u", "l", "t", "a", "d", "o">>
t_erroExecucao == <<"e", "r", "r", "o", "E", "x", "e", "c", "u", "c", "a", "o">>
t_msgErr == <<"m", "s", "g", "E", "r", "r">>
t_mensagem == <<"m", "e", "n", "s", "a", "g", "e", "m">>
t_faultstring == <<"f", "a", "u", "l", "t", "s", "t", "r", "i", "n", "g">>

\* s.endswith(suf)
EndsWith(s, suf) ==
  Len(suf) <= Len(s) /\ SubSeq(s, Len(s) - Len(suf) + 1, Len(s)) = suf

\* truth value of a str-or-None
Truthy(s) == s # None /\ s # <<>>

\* all_local(tag): the elements of root.iter(), in document order, whose tag
\* ends with the name
all_local(elems, tag) == SelectSeq(elems, LAMBDA e : EndsWith(e.tag, tag))

\* next((e.text for e in all_local(tag)), None)
FirstText(elems, tag) ==
  LET hits == all_local(elems, tag) IN IF hits = <<>> THEN None ELSE hits[1].text

\* parse_response on a well-formed document, given as root.iter()
parse_response(elems) ==
  LET withText == SelectSeq(all_local(elems, t_msgErr), LAMBDA e : Truthy(e.text))
      mensagem == FirstText(elems, t_mensagem)
      faultstring == FirstText(elems, t_faultstring)
  IN [resultado |-> FirstText(elems, t_resultado),
      erro_execucao |-> FirstText(elems, t_erroExecucao),
      grid_erros |-> [j \in 1..Len(withText) |-> withText[j].text],
      mensagem |-> IF Truthy(mensagem) THEN mensagem ELSE faultstring]

Lowers == <<"a", "b", "c", "d", "e", "f", "g", "h", "i", "j", "k", "l", "m",
            "n", "o", "p", "q", "r", "s", "t", "u", "v", "w", "x", "y", "z">>
Uppers == <<"A", "B", "C", "D", "E", "F", "G", "H", "I", "J", "K", "L", "M",
            "N", "O", "P", "Q", "R", "S", "T", "U", "V", "W", "X", "Y", "Z">>

\* str.upper() on ASCII text
Upper(s) ==
  [j \in 1..Len(s) |->
     IF s[j] \in Range(Lowers)
       THEN Uppers[CHOOSE k \in 1..Len(Lowers) : Lowers[k] = s[j]]
       ELSE s[j]]

\* variant: compares the result code without upper()
ClassifyExact(info) ==
  IF info.resultado # <<"O", "K">> \/ Truthy(info.erro_execucao) THEN "ERRO" ELSE "OK"

\* the status run_import gives a parsed reply
Classify(info) ==
  IF Upper(IF Truthy(info.resultado) THEN info.resultado ELSE <<>>) # <<"O", "K">>
     \/ Truthy(info.erro_execucao)
    THEN "ERRO" ELSE "OK"

\* " | ".join(parts)
RECURSIVE Join(_)
Join(parts) ==
  IF parts = <<>> THEN <<>>
  ELSE IF Len(parts) = 1 THEN parts[1]
  ELSE parts[1] \o <<" ", "|", " ">> \o Join(Tail(parts))

----------------------------------------------------------------------------
(* State *)

VARIABLES
  HAS_PANDAS,     \* pandas could be imported
  HAS_OPENPYXL,   \* openpyxl could be imported or installed
  net,            \* which set of answers the remote service draws from
  up,             \* the uploaded file
  simulate,       \* the "Modo simulado" checkbox
  batch_size,     \* run_import's batch_size argument
  pc,             \* position of the script: idle, build, send, parse, record, done, stopped
  shown,          \* the message the handler last put on the page
  records,        \* run_import: records
  i,              \* run_import: loop index
  log_rows,       \* run_import: log_rows
  ok_batches,     \* run_import: ok_batches
  xml_outputs,    \* run_import: xml_outputs
  chunks,         \* the chunk of every iteration so far, in order
  payload,        \* run_import: payload of the current iteration
  posts,          \* every call of post_batch so far, in order
  resp,           \* run_import: resp.content of the current iteration
  info,           \* run_import: info
  status,         \* run_import: status
  now,            \* logical clock read by datetime.now()
  raised          \* every exception raised inside the try so far: batch and text

vars == <<HAS_PANDAS, HAS_OPENPYXL, net, up, simulate, batch_size, pc, shown,
          records, i, log_rows, ok_batches, xml_outputs, chunks, payload,
          posts, resp, info, status, now, raised>>

env == <<HAS_PANDAS, HAS_OPENPYXL, net, up, simulate, batch_size>>
run == <<records, i, log_rows, ok_batches, xml_outputs, chunks, payload,
         posts, resp, info, status, now, raised>>

----------------------------------------------------------------------------
(* Inputs *)

\* the two rows of the sample sheet the page offers for download
SampleRows ==
  { <<PInt(101), PStr(<<"0", "7", "/", "2", "0", "2", "5">>), PInt(1), PInt(1002),
      PStr(<<"1", "0", "0", "2">>), PFloat(15000, 0), PFloat(0, 0)>>,
    <<PInt(101), PStr(<<"0", "8", "/", "2", "0", "2", "5">>), PInt(1), PInt(1002),
      PStr(<<"1", "0", "0", "2">>), PFloat(20000, 0), PFloat(0, 0)>> }

ColumnIndex(c) == CHOOSE j \in 1..Len(REQUIRED_COLUMNS) : REQUIRED_COLUMNS[j] = c

\* the cells of a sample row under a header, as the page writes the sample
\* file: a sheet keeps the values, a CSV holds their str()
RowParts(header, row, ext) ==
  [j \in 1..Len(header) |->
     IF header[j] \in Range(REQUIRED_COLUMNS)
       THEN (IF IsCsv(ext) THEN PStr(PyStr(row[ColumnIndex(header[j])]))
             ELSE row[ColumnIndex(header[j])])
       ELSE PStr(<<"x">>)]

HeaderShort == <<"numPrj", "mesAno", "codFpj", "ctaFin">>
HeaderCase == <<"NumPrj", "mesAno", "codFpj", "ctaFin", "codCcu", "vlrCpf", "VLRCXF">>
HeaderExtra == REQUIRED_COLUMNS \o <<"obs">>

SeqsUpTo(S, n) == UNION {[1..k -> S] : k \in 0..n}

NoFile == [ext |-> "none", header |-> <<>>, rows |-> <<>>]

\* files of the batch runs: delimited text, and sheets where pandas can
\* read them
RunFiles(sheets) ==
  {[ext |-> e, header |-> h, rows |-> [j \in 1..Len(rs) |-> RowParts(h, rs[j], e)]] :
     e \in (IF sheets THEN {"csv", "xlsx"} ELSE {"csv"}),
     h \in {REQUIRED_COLUMNS},
     rs \in SeqsUpTo(SampleRows, MaxRows)}
  \cup
  {[ext |-> e, header |-> h, rows |-> [j \in 1..Len(rs) |-> RowParts(h, rs[j], e)]] :
     e \in {"csv", "xlsx"},
     h \in {HeaderShort, HeaderCase, HeaderExtra},
     rs \in SeqsUpTo(SampleRows, 1)}
  \cup
  {[ext |-> e, header |-> <<>>, rows |-> <<>>] : e \in {"csv", "xlsx"}}

BatchSizes == (1..MaxBatch) \cup {BATCH_SIZE}

Elem(tag, text) == [tag |-> tag, text |-> text]
Doc(elems) == [wf |-> TRUE, elems |-> elems]
Malformed == [wf |-> FALSE, elems |-> <<>>]

\* "{ns}name": the tag ElementTree gives a namespaced element
Q(name) == <<"{", "n", "s", "}">> \o name

Reply(doc) == [raised |-> FALSE, msg |-> <<>>, status_code |-> 200, content |-> doc]
HttpStatus(code) == [raised |-> FALSE, msg |-> <<>>, status_code |-> code, content |-> Malformed]
Raises(msg) == [raised |-> TRUE, msg |-> msg, status_code |-> 0, content |-> Malformed]

ConnectionError == <<"C", "o", "n", "n", "e", "c", "t", "i", "o", "n", "E", "r", "r", "o", "r">>
HTTPError == <<"H", "T", "T", "P", "E", "r", "r", "o", "r">>
ParseError == <<"P", "a", "r", "s", "e", "E", "r", "r", "o", "r">>

DocOk ==
  Doc(<<Elem(Q(<<"r">>), None), Elem(t_resultado, <<"O", "K">>)>>)
DocErro ==
  Doc(<<Elem(Q(<<"r">>), None), Elem(t_resultado, <<"E", "R", "R", "O">>),
        Elem(t_erroExecucao, <<"x">>), Elem(t_msgErr, <<"e", "1">>),
        Elem(t_msgErr, <<"e", "2">>), Elem(t_mensagem, <<"m">>)>>)

\* answers of the service in the batch runs
NetRun == {Raises(ConnectionError), HttpStatus(500), Reply(Malformed), Reply(DocOk), Reply(DocErro)}

ReplyTags ==
  {t_resultado, Q(t_resultado), <<"x">> \o t_resultado, t_erroExecucao, Q(t_msgErr),
   t_mensagem, t_faultstring, <<"a">>}
ReplyTexts == {None, <<"O", "K">>, <<"o", "k">>, <<"n">>}
ReplyElems == {Elem(tg, tx) : tg \in ReplyTags, tx \in ReplyTexts}

NetParse ==
  {Reply(Doc(es)) : es \in UNION {[1..k -> ReplyElems] : k \in 1..MaxElems}}
  \cup {Reply(Malformed)}

\* the answers the service may give to one POST
Answers(which) == IF which = "parse" THEN NetParse ELSE NetRun

cfg ==
  [endpoint_soap |-> ENDPOINT_SOAP, user |-> "webservice", password |-> "Agro@2024",
   encryption |-> ENCRYPTION, tipOpe |-> TIP_OPE, codEmp |-> "70", lctSup |-> LCT_SUP,
   recalculaTotalizadores |-> RECALCULA_TOTALIZADORES, timeout |-> TIMEOUT]

NoInfo == [resultado |-> None, erro_execucao |-> None, grid_erros |-> <<>>, mensagem |-> None]
NoShown == [level |-> "none", kind |-> "", miss |-> <<>>, count |-> 0, rows |-> <<>>]

Idle ==
  /\ pc = "idle" /\ shown = NoShown
  /\ records = <<>> /\ i = 0 /\ log_rows = <<>> /\ ok_batches = 0
  /\ xml_outputs = <<>> /\ chunks = <<>> /\ payload = <<>> /\ posts = <<>>
  /\ resp = Malformed /\ info = NoInfo /\ status = "" /\ now = 0 /\ raised = <<>>

Init ==
  /\ HAS_PANDAS \in BOOLEAN /\ HAS_OPENPYXL \in BOOLEAN
  /\ net = "run"
  /\ up \in RunFiles(HAS_PANDAS) \cup {NoFile}
  /\ simulate \in BOOLEAN
  /\ batch_size \in BatchSizes
  /\ Idle

----------------------------------------------------------------------------
(* Handlers and the steps of run_import *)

LogHeader ==
  <<"timestamp", "lote", "status", "resultado", "erro_execucao", "msg", "grid_erros">>

SIMULADO == <<"S", "I", "M", "U", "L", "A", "D", "O">>

total == Len(records)

\* variant: batch numbers counted from zero
lote_idx0 == i \div batch_size

\* lote_idx = i // batch_size + 1
lote_idx == i \div batch_size + 1

\* math.ceil(n / b)
CeilDiv(n, b) == (n + b - 1) \div b

\* the rows the validation handler previews: head(10) of a frame, [:5] of a list
Preview(rows) == SubSeq(rows, 1, Min(Len(rows), IF HAS_PANDAS THEN 10 ELSE 5))

\* "Validar planilha": read_table and a message, nothing else
Validar ==
  /\ pc = "idle"
  /\ LET r == read_table(up, HAS_PANDAS, HAS_OPENPYXL)
     IN shown' =
          IF up = NoFile
            THEN [level |-> "warning", kind |-> "", miss |-> <<>>, count |-> 0, rows |-> <<>>]
          ELSE IF r.ok
            THEN [level |-> "success", kind |-> "", miss |-> <<>>,
                  count |-> Len(r.rows), rows |-> Preview(r.rows)]
          ELSE [level |-> "error", kind |-> r.kind, miss |-> r.miss, count |-> 0, rows |-> <<>>]
  /\ UNCHANGED <<env, pc, run>>

\* "Executar importação": read_table, st.stop() when it raises, otherwise the
\* entry of run_import up to its loop
Executar ==
  /\ pc = "idle"
  /\ LET r == read_table(up, HAS_PANDAS, HAS_OPENPYXL)
     IN IF up = NoFile
          THEN /\ shown' = [level |-> "warning", kind |-> "", miss |-> <<>>,
                            count |-> 0, rows |-> <<>>]
               /\ UNCHANGED <<pc, run>>
        ELSE IF ~r.ok
          THEN /\ shown' = [level |-> "error", kind |-> r.kind, miss |-> r.miss,
                            count |-> 0, rows |-> <<>>]
               /\ pc' = "stopped"
               /\ UNCHANGED run
        ELSE /\ shown' = NoShown
             /\ pc' = "build"
             /\ records' = r.rows
             /\ i' = 0
             /\ log_rows' = <<LogHeader>>
             /\ ok_batches' = 0
             /\ xml_outputs' = <<>>
             /\ UNCHANGED <<chunks, payload, posts, resp, info, status, now, raised>>
  /\ UNCHANGED env

\* variant: the except branch logs the row and leaves the loop
ExceptBreaks(msg) ==
  /\ log_rows' = Append(log_rows, <<now, lote_idx, "EXCEPTION", <<>>, <<>>, msg, <<>>>>)
  /\ now' = now + 1
  /\ i' = total
  /\ pc' = "build"

\* the except branch of the loop body: one EXCEPTION row, then the next batch
Except(msg) ==
  /\ log_rows' = Append(log_rows, <<now, lote_idx, "EXCEPTION", <<>>, <<>>, msg, <<>>>>)
  /\ now' = now + 1
  /\ i' = i + batch_size
  /\ pc' = "build"

\* an exception raised inside the try
Raise(msg) ==
  /\ raised' = Append(raised, [lote |-> lote_idx, msg |-> msg])
  /\ Except(msg)

\* variant: the slice starts one record late
ChunkLate(recs, start, size) == SubSeq(recs, start + 2, Min(start + size, Len(recs)))

\* records[i : i + batch_size]
Chunk(recs, start, size) == SubSeq(recs, start + 1, Min(start + size, Len(recs)))

\* variant: every logged batch counts
CountAlways(st, ok) == ok + 1

\* if status == "OK": ok_batches += 1
CountAfter(st, ok) == IF st = "OK" THEN ok + 1 ELSE ok

\* variant: simulate mode stores the XML and still goes on to send it
BuildThenSends ==
  /\ pc = "build" /\ i < total
  /\ LET chunk == Chunk(records, i, batch_size)
         xml == build_envelope(cfg, chunk, HAS_PANDAS)
     IN /\ chunks' = Append(chunks, chunk)
        /\ payload' = xml
        /\ xml_outputs' = IF simulate THEN Append(xml_outputs, <<lote_idx, xml>>) ELSE xml_outputs
        /\ pc' = "send"
        /\ UNCHANGED <<status, info>>
  /\ UNCHANGED <<env, shown, records, i, log_rows, ok_batches, posts, resp, now, raised>>

\* loop head, chunk, build_envelope and, in simulate mode, the stored XML
Build ==
  /\ pc = "build" /\ i < total
  /\ LET chunk == Chunk(records, i, batch_size)
         xml == build_envelope(cfg, chunk, HAS_PANDAS)
     IN /\ chunks' = Append(chunks, chunk)
        /\ payload' = xml
        /\ IF simulate
             THEN /\ xml_outputs' = Append(xml_outputs, <<lote_idx, xml>>)
                  /\ status' = "OK"
                  /\ info' = [resultado |-> <<"O", "K">>, erro_execucao |-> None,
                              mensagem |-> SIMULADO, grid_erros |-> <<>>]
                  /\ pc' = "record"
             ELSE /\ pc' = "send"
                  /\ UNCHANGED <<xml_outputs, status, info>>
  /\ UNCHANGED <<env, shown, records, i, log_rows, ok_batches, posts, resp, now, raised>>

\* variant: a failed POST is tried again, up to three POSTs for a batch
SendRetries ==
  /\ pc = "send"
  /\ posts' = Append(posts, [lote |-> lote_idx, endpoint |-> cfg.endpoint_soap,
                             data |-> payload, timeout |-> cfg.timeout])
  /\ \E o \in Answers(net) :
       IF o.raised \/ o.status_code >= 400
         THEN IF Cardinality({n \in 1..Len(posts) : posts[n].lote = lote_idx}) < 2
                THEN UNCHANGED <<pc, i, log_rows, now, raised, resp>>
                ELSE Raise(IF o.raised THEN o.msg ELSE HTTPError) /\ UNCHANGED resp
       ELSE /\ resp' = o.content
            /\ pc' = "parse"
            /\ UNCHANGED <<i, log_rows, now, raised>>
  /\ UNCHANGED <<env, shown, records, ok_batches, xml_outputs, chunks, payload, info, status>>

\* post_batch: one requests.post, then raise_for_status
Send ==
  /\ pc = "send"
  /\ posts' = Append(posts, [lote |-> lote_idx, endpoint |-> cfg.endpoint_soap,
                             data |-> payload, timeout |-> cfg.timeout])
  /\ \E o \in Answers(net) :
       IF o.raised
         THEN Raise(o.msg) /\ UNCHANGED resp
       ELSE IF o.status_code >= 400
         THEN Raise(HTTPError) /\ UNCHANGED resp
       ELSE /\ resp' = o.content
            /\ pc' = "parse"
            /\ UNCHANGED <<i, log_rows, now, raised>>
  /\ UNCHANGED <<env, shown, records, ok_batches, xml_outputs, chunks, payload, info, status>>

\* parse_response and the status of the reply
Parse ==
  /\ pc = "parse"
  /\ IF ~resp.wf
       THEN Raise(ParseError) /\ UNCHANGED <<info, status>>
       ELSE /\ info' = parse_response(resp.elems)
            /\ status' = Classify(parse_response(resp.elems))
            /\ pc' = "record"
            /\ UNCHANGED <<i, log_rows, now, raised>>
  /\ UNCHANGED <<env, shown, records, ok_batches, xml_outputs, chunks, payload, posts, resp>>

\* the count and the log row of a batch that raised nothing
Record ==
  /\ pc = "record"
  /\ ok_batches' = CountAfter(status, ok_batches)
  /\ log_rows' = Append(log_rows,
                   <<now, lote_idx, status, info.resultado, info.erro_execucao,
                     info.mensagem, Join(info.grid_erros)>>)
  /\ now' = now + 1
  /\ i' = i + batch_size
  /\ pc' = "build"
  /\ UNCHANGED <<env, shown, records, xml_outputs, chunks, payload, posts, resp, info,
                  status, raised>>

\* the loop ends: run_import returns and the handler reports ok / number of batches
Return ==
  /\ pc = "build" /\ i >= total
  /\ pc' = "done"
  /\ shown' = [level |-> "success", kind |-> "", miss |-> <<>>,
               count |-> ok_batches, rows |-> <<CeilDiv(total, BATCH_SIZE)>>]
  /\ UNCHANGED <<env, run>>

Next == Validar \/ Executar \/ Build \/ Send \/ Parse \/ Record \/ Return

Spec == Init /\ [][Next]_vars

----------------------------------------------------------------------------
(* parse_response over a bounded set of replies: one record, one batch *)

InitParse ==
  /\ HAS_PANDAS \in BOOLEAN /\ HAS_OPENPYXL = TRUE
  /\ net = "parse"
  /\ up = [ext |-> "csv", header |-> REQUIRED_COLUMNS,
           rows |-> <<RowParts(REQUIRED_COLUMNS, CHOOSE row \in SampleRows : TRUE, "csv")>>]
  /\ simulate = FALSE
  /\ batch_size = BATCH_SIZE
  /\ Idle

SpecParse == InitParse /\ [][Next]_vars

----------------------------------------------------------------------------
(* read_table over a bounded set of value cells: the validation handler *)

CellChars == {"0", "1", "5", ".", ","}
CellTexts == UNION {[1..k -> CellChars] : k \in 0..MaxLen}

\* a file of one data row whose vlrCpf cell is the given one
LoadFile(ext, cell) ==
  [ext |-> ext, header |-> REQUIRED_COLUMNS,
   rows |-> <<[j \in 1..Len(REQUIRED_COLUMNS) |->
                IF REQUIRED_COLUMNS[j] = "vlrCpf" THEN cell ELSE PStr(<<"1">>)]>>]

\* numeric cells of a sheet
SheetCells == {PFloat(m, e) : m \in {0, 5, 15000}, e \in 0..2} \cup {PInt(15)}

InitLoad ==
  /\ HAS_PANDAS \in BOOLEAN /\ HAS_OPENPYXL = TRUE
  /\ net = "run"
  /\ up \in {LoadFile("csv", PStr(t)) : t \in CellTexts}
           \cup (IF HAS_PANDAS
                   THEN {LoadFile("xlsx", c) : c \in SheetCells}
                        \cup {LoadFile("xlsx", PStr(t)) : t \in CellTexts}
                   ELSE {})
  /\ simulate = TRUE
  /\ batch_size = BATCH_SIZE
  /\ Idle

NextLoad == Validar

SpecLoad == InitLoad /\ [][NextLoad]_vars

----------------------------------------------------------------------------
(* Properties of the batch loop *)

Running == pc \in {"build", "send", "parse", "record", "done"}

NBatches == CeilDiv(total, batch_size)

RECURSIVE Concat(_)
Concat(ss) == IF ss = <<>> THEN <<>> ELSE Head(ss) \o Concat(Tail(ss))

\* C1: the loop cuts the records into ceil(N / B) batches, each of 1..B
\* records, and the batches in processing order spell the record sequence:
\* at every point they are a prefix of it, at the end all of it.
C1_Batching ==
  Running =>
    /\ \A k \in 1..Len(chunks) : Len(chunks[k]) >= 1 /\ Len(chunks[k]) <= batch_size
    /\ Len(Concat(chunks)) <= total
    /\ Concat(chunks) = SubSeq(records, 1, Len(Concat(chunks)))
    /\ pc = "done" => Len(chunks) = NBatches /\ Concat(chunks) = records

C1_Witness ==
  /\ pc = "done" /\ Len(chunks) = 2 /\ batch_size = 2
  /\ Len(chunks[1]) = 2 /\ Len(chunks[2]) = 1
  /\ records[1] # records[2]

\* C2: with simulate off, an exception raised for batch k is caught: the
\* batch gets one EXCEPTION row carrying the exception's text, the success
\* count leaves it out, and the loop still builds and sends every later
\* batch, so the run ends with a row for each batch.
C2_ExceptionIsolated ==
  ~simulate =>
    /\ \A n \in 1..Len(raised) :
         /\ Len(log_rows) >= raised[n].lote + 1
         /\ log_rows[raised[n].lote + 1][2] = raised[n].lote
         /\ log_rows[raised[n].lote + 1][3] = "EXCEPTION"
         /\ log_rows[raised[n].lote + 1][6] = raised[n].msg
    /\ Running => ok_batches + Len(raised) <= Len(log_rows) - 1
    /\ pc = "done" =>
         /\ Len(chunks) = NBatches /\ Len(posts) = NBatches
         /\ Len(log_rows) = NBatches + 1
         /\ shown.count = ok_batches

C2_Witness ==
  /\ pc = "done" /\ ~simulate
  /\ Len(raised) = 1 /\ raised[1].lote = 1 /\ raised[1].msg = ConnectionError
  /\ Len(log_rows) = 3 /\ log_rows[3][3] = "OK" /\ ok_batches = 1

OkRows == {k \in 2..Len(log_rows) : log_rows[k][3] = "OK"}

\* C4: the success count is the number of OK rows in the log, all through
\* the run and in the value returned.
C4_CountMatchesLog ==
  Running =>
    /\ ok_batches = Cardinality(OkRows)
    /\ pc = "done" => shown.count = Cardinality(OkRows)

C4_Witness ==
  /\ pc = "done" /\ Len(log_rows) = 4 /\ ok_batches = 1
  /\ \E k \in 2..4 : log_rows[k][3] = "ERRO"
  /\ \E k \in 2..4 : log_rows[k][3] = "EXCEPTION"

\* C5: in simulate mode nothing is posted, every batch is logged OK and the
\* artifacts hold the envelope of each batch under its 1-based number; with
\* simulate off the artifacts stay empty.
C5_Simulate ==
  /\ simulate =>
       /\ posts = <<>>
       /\ \A k \in 2..Len(log_rows) : log_rows[k][3] = "OK"
       /\ Len(xml_outputs) = Len(chunks)
       /\ \A k \in 1..Len(xml_outputs) :
            xml_outputs[k] = <<k, build_envelope(cfg, chunks[k], HAS_PANDAS)>>
       /\ pc = "done" => Len(xml_outputs) = NBatches /\ Len(log_rows) = NBatches + 1
  /\ ~simulate => xml_outputs = <<>>

C5_Witness ==
  /\ pc = "done" /\ simulate /\ Len(xml_outputs) = 3
  /\ xml_outputs[3][1] = 3 /\ Len(log_rows) = 4

PostsOf(k) == {n \in 1..Len(posts) : posts[n].lote = k}

TransportErrors == {ConnectionError, HTTPError}

\* C6 as stated: a batch is given up as EXCEPTION for a transport error only
\* after three POSTs.
C6_ThreeAttempts ==
  \A n \in 1..Len(raised) :
    raised[n].msg \in TransportErrors => Cardinality(PostsOf(raised[n].lote)) = 3

\* C6 amended: post_batch makes one POST per batch and never retries: the
\* n-th POST of a run is batch n's only one, a failing POST makes the batch
\* an EXCEPTION at once, and a finished run has posted each batch once.
C6_SingleAttempt ==
  /\ \A n \in 1..Len(posts) : posts[n].lote = n /\ PostsOf(n) = {n}
  /\ \A n \in 1..Len(raised) :
       raised[n].msg \in TransportErrors =>
         /\ Cardinality(PostsOf(raised[n].lote)) = 1
         /\ log_rows[raised[n].lote + 1][3] = "EXCEPTION"
  /\ pc = "done" /\ ~simulate => Len(posts) = NBatches

C6_Witness ==
  /\ pc = "done" /\ Len(posts) = 2
  /\ Len(raised) = 1 /\ raised[1].lote = 1 /\ raised[1].msg = HTTPError
  /\ log_rows[2][3] = "EXCEPTION"

C7_LogState ==
  log_rows # <<>> =>
    /\ log_rows[1] = LogHeader
    /\ \A k \in 2..Len(log_rows) : Len(log_rows[k]) = 7 /\ log_rows[k][2] = k - 1
    /\ Len(chunks) \in {Len(log_rows) - 1, Len(log_rows)}
    /\ Len(chunks) = Len(log_rows) <=> pc \in {"send", "parse", "record"}
    /\ posts # <<>> => posts[Len(posts)].lote <= Len(chunks)
    /\ pc = "done" => Len(log_rows) = NBatches + 1

C7_AppendOnly ==
  [][/\ Len(log_rows') \in {Len(log_rows), Len(log_rows) + 1}
     /\ SubSeq(log_rows', 1, Len(log_rows)) = log_rows]_vars

\* C7: the log starts with the header row, then holds one row per batch
\* numbered 1, 2, ... in order; rows are only ever appended; and a batch is
\* built and sent only after the row of the batch before it is in the log.
C7_OrderedLog == []C7_LogState /\ C7_AppendOnly

C7_Witness ==
  /\ pc = "done" /\ Len(log_rows) = 4
  /\ log_rows[2][3] = "OK" /\ log_rows[3][3] = "EXCEPTION" /\ log_rows[4][3] = "ERRO"

\* a header was found: the branch taken can read the file
Readable ==
  IF HAS_PANDAS
    THEN (IsExcel(up.ext) /\ HAS_OPENPYXL) \/ (IsCsv(up.ext) /\ up.header # <<>>)
    ELSE IsCsv(up.ext) /\ up.header # <<>>

Absent == {c \in Range(REQUIRED_COLUMNS) : c \notin Range(up.header)}

\* C10: read_table reports missing columns exactly when a required name is
\* absent from the header it found, the report names the absent columns and
\* only those, and a load that fails stops the handler before anything is
\* built, sent or logged.
C10_SchemaError ==
  /\ shown.level = "error" =>
       /\ shown.kind = "Schema" <=> (Readable /\ Absent # {})
       /\ shown.kind = "Schema" =>
            Range(shown.miss) = Absent /\ Len(shown.miss) = Cardinality(Absent)
  /\ shown.level = "success" \/ Running => Readable /\ Absent = {}
  /\ pc = "stopped" =>
       /\ shown.level = "error"
       /\ chunks = <<>> /\ posts = <<>> /\ log_rows = <<>> /\ xml_outputs = <<>>
       /\ payload = <<>> /\ raised = <<>>

C10_Witness ==
  /\ pc = "stopped" /\ up.header = HeaderShort
  /\ shown.kind = "Schema" /\ shown.miss = <<"codCcu", "vlrCpf", "vlrCxf">>

----------------------------------------------------------------------------
(* Properties of the reply handling *)

OkSpellings == {<<"O", "K">>, <<"o", "k">>, <<"O", "k">>, <<"o", "K">>}

\* the log row says OK exactly when its result code is a spelling of OK and
\* its execution error is empty; otherwise it carries the word `other`
StatusFollowsReply(row, other) ==
  /\ row[3] \in {"OK", other, "EXCEPTION"}
  /\ row[3] # "EXCEPTION" =>
       (row[3] = "OK" <=> (row[4] \in OkSpellings /\ row[5] \in {None, <<>>}))

\* C3 as stated: the status is OK, ERROR or EXCEPTION.
C3_StatusError ==
  \A k \in 2..Len(log_rows) : StatusFollowsReply(log_rows[k], "ERROR")

\* C3 amended: a batch whose send and parse raised nothing is logged OK
\* exactly when the result code is OK in any letter case and the execution
\* error has no text, and ERRO otherwise, whatever msgErr entries the reply
\* holds; the status is always OK, ERRO or EXCEPTION.
C3_StatusErro ==
  \A k \in 2..Len(log_rows) : StatusFollowsReply(log_rows[k], "ERRO")

C3_Witness ==
  /\ pc = "done" /\ Len(log_rows) = 2
  /\ log_rows[2][3] = "OK" /\ log_rows[2][4] = <<"o", "k">>
  /\ log_rows[2][7] = <<"n">>

\* the part of a tag after its namespace brace
LocalName(tag) ==
  IF tag # <<>> /\ tag[1] = "{" /\ "}" \in Range(tag)
    THEN SubSeq(tag, (CHOOSE j \in 1..Len(tag) :
                        tag[j] = "}" /\ \A h \in 1..(j - 1) : tag[h] # "}") + 1, Len(tag))
    ELSE tag

ByLocalName(elems, name) == SelectSeq(elems, LAMBDA e : LocalName(e.tag) = name)

FirstByLocalName(elems, name) ==
  IF ByLocalName(elems, name) = <<>> THEN None ELSE ByLocalName(elems, name)[1].text

\* C8: the result code and the execution error are the text of the first
\* element whose local name is exactly resultado / erroExecucao; elements
\* with any other local name are ignored.
C8_ExactLocalName ==
  pc = "record" =>
    /\ info.resultado = FirstByLocalName(resp.elems, t_resultado)
    /\ info.erro_execucao = FirstByLocalName(resp.elems, t_erroExecucao)

\* prefixed and unprefixed elements of the same local name read alike
C8_PrefixIgnored ==
  pc = "record" /\ (\A n \in 1..Len(resp.elems) : resp.elems[n].tag # <<"x">> \o t_resultado)
    => info.resultado = FirstByLocalName(resp.elems, t_resultado)

----------------------------------------------------------------------------
(* Properties of the number normalisation *)

\* digits, a ".", one or two digits
IsPlainDecimal(s) ==
  /\ Range(s) \subseteq Digits \cup {"."}
  /\ Cardinality({j \in 1..Len(s) : s[j] = "."}) = 1
  /\ \E j \in 2..Len(s) : s[j] = "." /\ Len(s) - j \in {1, 2}

\* the number a plain decimal text denotes
PlainValue(s) ==
  LET j == CHOOSE n \in 1..Len(s) : s[n] = "."
  IN PFloat(DigitsToInt(SubSeq(s, 1, j - 1)) * Pow10(Len(s) - j)
              + DigitsToInt(SubSeq(s, j + 1, Len(s))), Len(s) - j)

\* digits, a ",", digits: Brazilian format without thousands groups
IsCommaDecimal(s) ==
  /\ Range(s) \subseteq Digits \cup {","}
  /\ \E j \in 2..(Len(s) - 1) : s[j] = "," /\ \A n \in 1..Len(s) : n # j => s[n] # ","

CommaValue(s) ==
  LET j == CHOOSE n \in 1..Len(s) : s[n] = ","
  IN PFloat(DigitsToInt(SubSeq(s, 1, j - 1)) * Pow10(Len(s) - j)
              + DigitsToInt(SubSeq(s, j + 1, Len(s))), Len(s) - j)

CellIn == up.rows[1][ColumnIndex("vlrCpf")]
CellOut == shown.rows[1]["vlrCpf"]

\* C9: a value that is already a plain decimal number keeps its value.
C9_PlainDecimalKept ==
  shown.level = "success" =>
    /\ CellIn.t \in {"float", "int"} => CellOut = PFloat(CellIn.m, CellIn.e)
    /\ CellIn.t = "str" /\ IsPlainDecimal(CellIn.s) => CellOut = PlainValue(CellIn.s)

\* C9: an empty or missing numeric field normalises to 0.
C9_EmptyIsZero ==
  shown.level = "success" /\ (CellIn = PStr(<<>>) \/ CellIn = PNaN) => CellOut = PFloat(0, 0)

\* a digit, a ".", three digits: one thousands group
IsGrouped(s) ==
  Len(s) = 5 /\ s[2] = "." /\ \A n \in {1, 3, 4, 5} : s[n] \in Digits

GroupValue(s) == PFloat(DigitsToInt(<<s[1]>> \o SubSeq(s, 3, 5)), 0)

\* C9: a thousands separator is dropped. Violated with pandas: a group
\* without a decimal comma is read as a float before the "." is stripped.
C9_GroupConverted ==
  shown.level = "success" /\ CellIn.t = "str" /\ IsGrouped(CellIn.s)
    => CellOut = GroupValue(CellIn.s)

\* C9: without pandas a thousands separator is dropped.
C9_GroupConvertedFallback ==
  shown.level = "success" /\ ~HAS_PANDAS /\ CellIn.t = "str" /\ IsGrouped(CellIn.s)
    => CellOut = GroupValue(CellIn.s)

\* C9: a decimal comma is read as the decimal point.
C9_CommaConverted ==
  shown.level = "success" /\ CellIn.t = "str" /\ IsCommaDecimal(CellIn.s)
    => CellOut = CommaValue(CellIn.s)

====
